---- MODULE Spec2Model ----
(***************************************************************************)
(* zypper-updateinfo.py: one run of the script, from the precondition      *)
(* checks to the exit of the interpreter.  The script is single-threaded;  *)
(* pc is the position of main(), sender_pc the position inside an active   *)
(* zabbix_sender() call.  Strings are TLA+ strings; a Python dict is the   *)
(* sequence of its (key, value) pairs in insertion order; an XML document  *)
(* is the sequence of the elements the script's findall() paths select.    *)
(***************************************************************************)
EXTENDS Integers, Sequences, FiniteSets, TLC

(* ------------------------------ bounds --------------------------------- *)

MaxRepos == 2
MaxPackages == 2
MaxPatches == 2
MaxIssues == 2

(* --------------------------- configuration ----------------------------- *)

zabbix_sender_bin == "/usr/bin/zabbix_sender"
zabbix_agent_config == "/etc/zabbix/zabbix_agent2.conf"
categories == <<"security", "recommended", "optional", "feature", "document", "yast">>
severities == <<"critical", "important", "moderate", "low", "unspecified">>
zabbix_item_key_prefix == "zypper.updateinfo"

(* ------------------------- Python built-ins ---------------------------- *)

Range(s) == {s[i] : i \in 1..Len(s)}

\* A value stored in a dict of mixed content carries its Python type.
IntV(n) == [t |-> "int", v |-> n]
StrV(s) == [t |-> "str", v |-> s]

\* d[key] = value: an existing key keeps its position, a new one is appended.
DictSet(d, key, value) ==
    IF \E i \in 1..Len(d) : d[i].k = key
    THEN [i \in 1..Len(d) |-> IF d[i].k = key THEN [k |-> key, v |-> value] ELSE d[i]]
    ELSE Append(d, [k |-> key, v |-> value])

DictKeys(d) == {d[i].k : i \in 1..Len(d)}

\* d[key], for a key of d.
DictGet(d, key) == d[CHOOSE i \in 1..Len(d) : d[i].k = key].v

\* json.dumps(obj): the document is kept as the tree it serialises.
JsonDumps(obj) == [json |-> obj]

\* The code points of the issue ids the model draws from (str comparison in
\* Python is by code point).
Codes(s) ==
    CASE s = "CVE-2024-1"  -> <<67, 86, 69, 45, 50, 48, 50, 52, 45, 49>>
      [] s = "CVE-2024-10" -> <<67, 86, 69, 45, 50, 48, 50, 52, 45, 49, 48>>
      [] s = "CVE-2024-2"  -> <<67, 86, 69, 45, 50, 48, 50, 52, 45, 50>>
      [] s = "1200001"     -> <<49, 50, 48, 48, 48, 48, 49>>

\* a < b for two str: the first differing code point decides, a proper
\* prefix is smaller.
RECURSIVE SeqLess(_, _)
SeqLess(a, b) ==
    IF b = <<>> THEN FALSE
    ELSE IF a = <<>> THEN TRUE
    ELSE IF a[1] # b[1] THEN a[1] < b[1]
    ELSE SeqLess(Tail(a), Tail(b))

StrLess(a, b) == SeqLess(Codes(a), Codes(b))

\* list(dict.fromkeys(l)): the first occurrence of each element, in order.
RECURSIVE DictFromKeys(_)
DictFromKeys(l) ==
    IF l = <<>> THEN <<>>
    ELSE LET rest == DictFromKeys(SubSeq(l, 1, Len(l) - 1))
             x == l[Len(l)]
         IN  IF x \in Range(rest) THEN rest ELSE Append(rest, x)

\* l.sort(): stable ascending sort of a list of str.
RECURSIVE Insert(_, _)
Insert(sorted, x) ==
    IF sorted = <<>> THEN <<x>>
    ELSE IF StrLess(x, sorted[1]) THEN <<x>> \o sorted
    ELSE <<sorted[1]>> \o Insert(Tail(sorted), x)

RECURSIVE Sort(_)
Sort(l) ==
    IF l = <<>> THEN <<>>
    ELSE Insert(Sort(SubSeq(l, 1, Len(l) - 1)), l[Len(l)])

\* sep.join(l)
RECURSIVE Join(_, _)
Join(sep, l) ==
    IF l = <<>> THEN ""
    ELSE IF Len(l) = 1 THEN l[1]
    ELSE l[1] \o sep \o Join(sep, Tail(l))

\* [x for s in ll for x in s]: findall() returns matches in document order.
RECURSIVE Flatten(_)
Flatten(ll) == IF ll = <<>> THEN <<>> ELSE ll[1] \o Flatten(Tail(ll))

\* The sequences over S of length at most n.
SeqsUpTo(S, n) == UNION {[1..m -> S] : m \in 0..n}

(* --------------------- the data the script computes -------------------- *)

\* patch_category_discovery(), before json.dumps: one entry per
\* (category, severity), categories outermost.  A field f of a discovery
\* entry stands for the macro key {#F}.
RECURSIVE SeverityEntries(_, _)
SeverityEntries(category, n) ==
    IF n = 0 THEN <<>>
    ELSE Append(SeverityEntries(category, n - 1),
                [category |-> category, severity |-> severities[n]])

RECURSIVE CategoryEntries(_)
CategoryEntries(n) ==
    IF n = 0 THEN <<>>
    ELSE CategoryEntries(n - 1) \o SeverityEntries(categories[n], Len(severities))

patch_category_discovery == JsonDumps(CategoryEntries(Len(categories)))

\* repositories_discovery(repolist): the alias list and the discovery JSON.
repo_aliases(repolist) == [i \in 1..Len(repolist) |-> repolist[i].alias]

repo_discovery(repolist) ==
    JsonDumps([i \in 1..Len(repolist) |->
                  [alias |-> repolist[i].alias, name |-> repolist[i].name,
                   enabled |-> repolist[i].enabled,
                   autorefresh |-> repolist[i].autorefresh]])

\* PatchCount with the severity predicate left out of the path.
PatchCount_CategoryOnly(pl, category, severity) ==
    Len(SelectSeq(pl, LAMBDA u : u.category = category))

\* len(patchlist.findall("update-status/*/update[@category=..][@severity=..]"))
PatchCount(pl, category, severity) ==
    Len(SelectSeq(pl, LAMBDA u : u.category = category /\ u.severity = severity))

\* update_info["patches"][category] after the inner loop over severities.
RECURSIVE SeverityCounts(_, _, _)
SeverityCounts(pl, category, n) ==
    IF n = 0 THEN <<>>
    ELSE DictSet(SeverityCounts(pl, category, n - 1), severities[n],
                 IntV(PatchCount(pl, category, severities[n])))

\* update_info["patches"] after the loop over categories.
RECURSIVE PatchItems(_, _)
PatchItems(pl, n) ==
    IF n = 0 THEN <<>>
    ELSE DictSet(PatchItems(pl, n - 1), categories[n],
                 SeverityCounts(pl, categories[n], Len(severities)))

\* The ids of findall("update-status/*/update/issue-list/issue[@type='cve']").
CveIssues(pl) ==
    LET issues == Flatten([i \in 1..Len(pl) |-> pl[i].issues])
        cve == SelectSeq(issues, LAMBDA x : x.type = "cve")
    IN  [i \in 1..Len(cve) |-> cve[i].id]

\* Vulnerabilities without the removal of duplicates.
Vulnerabilities_NoDedup(pl) == Sort(CveIssues(pl))

\* Remove duplicates and sort.
Vulnerabilities(pl) == Sort(DictFromKeys(CveIssues(pl)))

\* update_info["patches"] once ["security"]["cves"] is set.
GeneratedPatches(pl) ==
    LET patches == PatchItems(pl, Len(categories))
    IN  DictSet(patches, "security",
                DictSet(DictGet(patches, "security"), "cves",
                        StrV(Join(", ", Vulnerabilities(pl)))))

\* packagelist.findall("update-status/*/update[@kind='package']")
PackageUpdates(pkl) == SelectSeq(pkl, LAMBDA u : u.kind = "package")

\* len(findall("update-status/*/update[@kind='package']/source[@alias=..]"))
PackageCount(pkl, repository) ==
    Len(SelectSeq(PackageUpdates(pkl), LAMBDA u : u.source = repository))

\* update_info["packages"] after the loop over the first n repositories.
RECURSIVE RepositoryCounts(_, _, _)
RepositoryCounts(pkl, repos, n) ==
    IF n = 0 THEN <<[k |-> "all", v |-> IntV(Len(PackageUpdates(pkl)))]>>
    ELSE DictSet(RepositoryCounts(pkl, repos, n - 1), repos[n],
                 IntV(PackageCount(pkl, repos[n])))

PackageNames(pkl) ==
    LET pu == PackageUpdates(pkl)
    IN  [i \in 1..Len(pu) |-> pu[i].name \o "." \o pu[i].arch]

\* update_info["packages"] once ["list"] is set.
GeneratedPackages(pkl, repos) ==
    DictSet(RepositoryCounts(pkl, repos, Len(repos)), "list",
            StrV(Join(", ", PackageNames(pkl))))

\* The lines zabbix_sender() writes for trapitems.
SenderLines(hostname, trapitems) ==
    [i \in 1..Len(trapitems) |->
        [hostname |-> hostname,
         key |-> zabbix_item_key_prefix \o "." \o trapitems[i].k,
         value |-> trapitems[i].v]]

(* ------------------ the environment the run may meet ------------------- *)

\* A path of the file system: whether it is a regular file, and whether the
\* permission the script asks about (X_OK, R_OK) is granted on it.
FileStates == {f \in [exists : BOOLEAN, perm : BOOLEAN] : f.perm => f.exists}

\* os.path.isfile(path) and os.access(path, mode)
isfile(f) == f.exists
access(f) == f.exists /\ f.perm

\* socket.gethostname()
Hostnames == {"web01"}

\* Exit statuses of a failed zypper sub-command, and of zabbix_sender run by
\* the shell: 126 when the binary may not be executed, 1 when the
\* configuration cannot be read, else its own 0 (sent) or 2 (rejected).
ZypperFailStatuses == {4, 106}
SenderStatuses(f) ==
    IF ~f.bin.perm THEN {126} ELSE IF ~f.conf.perm THEN {1} ELSE {0, 2}

\* <repo> elements of `zypper repos`: aliases are unique.
Aliases == {"r1", "all", "list"}
RepoElement(a) ==
    [alias |-> a, name |-> "Repository " \o a, enabled |-> "1", autorefresh |-> "0"]
RepoLists ==
    {l \in SeqsUpTo({RepoElement(a) : a \in Aliases}, MaxRepos) :
        \A i, j \in 1..Len(l) : i # j => l[i].alias # l[j].alias}

\* <update> elements of `zypper list-updates`, each with its <source>, one
\* of the configured repositories.
Solvables ==
    {[kind |-> "package", name |-> "vim", arch |-> "x86_64"],
     [kind |-> "package", name |-> "zsh", arch |-> "noarch"],
     [kind |-> "patch", name |-> "openSUSE-2024-17", arch |-> "noarch"]}
PackageLists(repos) ==
    SeqsUpTo({[kind |-> b.kind, name |-> b.name, arch |-> b.arch, source |-> a] :
                 b \in Solvables, a \in Range(repos)}, MaxPackages)

\* <issue> elements and <update> elements of `zypper list-patches`.
Issues ==
    {[type |-> "cve", id |-> "CVE-2024-1"], [type |-> "cve", id |-> "CVE-2024-10"],
     [type |-> "cve", id |-> "CVE-2024-2"], [type |-> "bugzilla", id |-> "1200001"]}
IssueLists == SeqsUpTo(Issues, MaxIssues)
Patch(category, severity, issues) ==
    [category |-> category, severity |-> severity, issues |-> issues]

\* Patch lists that vary category and severity, inside and outside the
\* taxonomy.
TaxonomyPatchLists ==
    SeqsUpTo({Patch(c, s, <<>>) : c \in Range(categories) \cup {"other"},
                                  s \in Range(severities) \cup {"none"}},
             MaxPatches)

\* Patch lists that vary the issue references of one or two patches.
IssuePatchLists ==
    {<<Patch("security", "critical", i)>> : i \in IssueLists}
    \cup {<<Patch("security", "critical", i), Patch("recommended", "low", j)>> :
             i \in IssueLists, j \in IssueLists}

\* The patch lists a whole run is followed with: none pending, and two
\* security/critical patches and one recommended/low patch referencing
\* CVE-2024-2, CVE-2024-1, CVE-2024-1.
RunPatchLists ==
    {<<>>,
     <<Patch("security", "critical",
             <<[type |-> "cve", id |-> "CVE-2024-2"], [type |-> "bugzilla", id |-> "1200001"]>>),
       Patch("security", "critical", <<[type |-> "cve", id |-> "CVE-2024-1"]>>),
       Patch("recommended", "low", <<[type |-> "cve", id |-> "CVE-2024-1"]>>)>>}

(* ------------------------------- state --------------------------------- *)

VARIABLES
    pc,              \* position of main(); "exited" once the process has ended
    sender_pc,       \* position inside zabbix_sender(): idle, open, ran
    fs,              \* zabbix_sender_bin and zabbix_agent_config on disk
    host_hostname,   \* line 30
    exit_status,     \* <<>> while running, <<status>> once exited
    stdout,          \* what print() wrote
    stderr,          \* what sys.exit(message) wrote
    calls,           \* the external commands run so far, with their status
    tmpfiles,        \* the NamedTemporaryFiles that exist, as their lines
    discovery_items, \* main()'s locals
    repositories,
    patchlist,
    packagelist,
    update_info

vars == <<pc, sender_pc, fs, host_hostname, exit_status, stdout, stderr, calls,
          tmpfiles, discovery_items, repositories, patchlist, packagelist,
          update_info>>

Init ==
    /\ pc = "check_bin"
    /\ sender_pc = "idle"
    /\ fs \in [bin : FileStates, conf : FileStates]
    /\ host_hostname \in Hostnames
    /\ exit_status = <<>>
    /\ stdout = <<>>
    /\ stderr = <<>>
    /\ calls = <<>>
    /\ tmpfiles = <<>>
    /\ discovery_items = <<>>
    /\ repositories = <<>>
    /\ patchlist = <<>>
    /\ packagelist = <<>>
    /\ update_info = [patches |-> <<>>, packages |-> <<>>]

(* ------------------------------ actions -------------------------------- *)

\* sys.exit(message): the message goes to stderr, the status is 1.
SysExit(message) ==
    /\ stderr' = Append(stderr, message)
    /\ exit_status' = <<1>>
    /\ pc' = "exited"

\* Line 103-104.
CheckSenderBin ==
    /\ pc = "check_bin"
    /\ IF ~(isfile(fs.bin) \/ access(fs.bin))
       THEN SysExit("Zabbix sender " \o zabbix_sender_bin
                        \o " was not found or is not executable.")
       ELSE pc' = "check_conf" /\ UNCHANGED <<stderr, exit_status>>
    /\ UNCHANGED <<sender_pc, fs, host_hostname, stdout, calls, tmpfiles,
                   discovery_items, repositories, patchlist, packagelist,
                   update_info>>

\* Line 106-107.
CheckAgentConfig ==
    /\ pc = "check_conf"
    /\ IF ~(isfile(fs.conf) \/ access(fs.conf))
       THEN SysExit("Zabbix config " \o zabbix_agent_config
                        \o " was not found or is not readable.")
       ELSE pc' = "repos" /\ UNCHANGED <<stderr, exit_status>>
    /\ UNCHANGED <<sender_pc, fs, host_hostname, stdout, calls, tmpfiles,
                   discovery_items, repositories, patchlist, packagelist,
                   update_info>>

\* ZypperCmd with the exit of line 47 left out: the status is printed and
\* main() goes on.
ZypperCmd_NoExit(params, banner, rc, next) ==
    /\ calls' = Append(calls, [bin |-> "zypper", params |-> params, rc |-> rc])
    /\ stdout' = IF rc # 0
                 THEN stdout \o <<banner, "Error getting patch list: " \o ToString(rc)>>
                 ELSE Append(stdout, banner)
    /\ exit_status' = exit_status
    /\ pc' = next

\* zypper_cmd(params), called after `banner` was printed: the command runs
\* once; a non-zero status is printed and becomes the exit status, else
\* `next` is the position main() goes on from.
ZypperCmd(params, banner, rc, next) ==
    /\ calls' = Append(calls, [bin |-> "zypper", params |-> params, rc |-> rc])
    /\ IF rc # 0
       THEN /\ stdout' = stdout \o <<banner, "Error getting patch list: " \o ToString(rc)>>
            /\ exit_status' = <<rc>>
            /\ pc' = "exited"
       ELSE /\ stdout' = Append(stdout, banner)
            /\ exit_status' = exit_status
            /\ pc' = next

\* Line 109-112.
ZypperRepos ==
    /\ pc = "repos"
    /\ \E rc \in {0} \cup ZypperFailStatuses :
        /\ ZypperCmd("repos", "Retrieving available repositories...", rc, "send_discovery")
        /\ IF rc # 0
           THEN /\ discovery_items' =
                       DictSet(discovery_items, "patch_category.discovery",
                               patch_category_discovery)
                /\ UNCHANGED repositories
           ELSE \E repolist \in RepoLists :
                /\ repositories' = repo_aliases(repolist)
                /\ discovery_items' =
                       DictSet(DictSet(discovery_items, "patch_category.discovery",
                                       patch_category_discovery),
                               "repositories.discovery", repo_discovery(repolist))
    /\ UNCHANGED <<sender_pc, fs, host_hostname, stderr, tmpfiles, patchlist,
                   packagelist, update_info>>

\* TrapItems with the results added to the discovery dict rather than sent
\* as a dict of their own.
TrapItems_Merged ==
    IF pc = "send_discovery" THEN discovery_items
    ELSE Append(discovery_items, [k |-> "raw", v |-> JsonDumps(update_info)])

\* The trapitems of the zabbix_sender() call main() is at (line 115, 158).
TrapItems ==
    IF pc = "send_discovery" THEN discovery_items
    ELSE <<[k |-> "raw", v |-> JsonDumps(update_info)]>>

\* Line 114-115 or 157-158, then 53-57: the banner, the temporary file and
\* its lines.
SenderOpen ==
    /\ pc \in {"send_discovery", "send_results"}
    /\ sender_pc = "idle"
    /\ stdout' = Append(stdout, IF pc = "send_discovery"
                                THEN "Sending discovery information to Zabbix..."
                                ELSE "Sending results to Zabbix...")
    /\ tmpfiles' = Append(tmpfiles, SenderLines(host_hostname, TrapItems))
    /\ sender_pc' = "open"
    /\ UNCHANGED <<pc, fs, host_hostname, exit_status, stderr, calls,
                   discovery_items, repositories, patchlist, packagelist,
                   update_info>>

\* SenderRun with the except branch exiting with the sink's status.
SenderRun_Abort ==
    /\ sender_pc = "open"
    /\ \E rc \in SenderStatuses(fs) :
        /\ calls' = Append(calls, [bin |-> zabbix_sender_bin,
                                   config |-> zabbix_agent_config,
                                   input |-> tmpfiles[Len(tmpfiles)], rc |-> rc])
        /\ IF rc # 0
           THEN /\ stdout' = Append(stdout, "Error running " \o zabbix_sender_bin
                                                \o ": " \o ToString(rc))
                /\ tmpfiles' = SubSeq(tmpfiles, 1, Len(tmpfiles) - 1)
                /\ sender_pc' = "idle"
                /\ exit_status' = <<rc>>
                /\ pc' = "exited"
           ELSE /\ stdout' = Append(stdout, "sent")
                /\ sender_pc' = "ran"
                /\ UNCHANGED <<pc, exit_status, tmpfiles>>
    /\ UNCHANGED <<fs, host_hostname, stderr, discovery_items, repositories,
                   patchlist, packagelist, update_info>>

\* SenderRun with the sink run again on the same file after a rejection.
SenderRun_Retry ==
    /\ sender_pc = "open"
    /\ \E rc \in SenderStatuses(fs) :
        /\ calls' = Append(calls, [bin |-> zabbix_sender_bin,
                                   config |-> zabbix_agent_config,
                                   input |-> tmpfiles[Len(tmpfiles)], rc |-> rc])
        /\ stdout' = Append(stdout,
                            IF rc # 0
                            THEN "Error running " \o zabbix_sender_bin \o ": " \o ToString(rc)
                            ELSE "sent")
        /\ sender_pc' = IF rc # 0 THEN "open" ELSE "ran"
    /\ UNCHANGED <<pc, fs, host_hostname, exit_status, stderr, tmpfiles,
                   discovery_items, repositories, patchlist, packagelist,
                   update_info>>

\* Line 59-68: zabbix_sender_bin runs on the file; its status only decides
\* what is printed.
SenderRun ==
    /\ sender_pc = "open"
    /\ \E rc \in SenderStatuses(fs) :
        /\ calls' = Append(calls, [bin |-> zabbix_sender_bin,
                                   config |-> zabbix_agent_config,
                                   input |-> tmpfiles[Len(tmpfiles)], rc |-> rc])
        /\ stdout' = Append(stdout,
                            IF rc # 0
                            THEN "Error running " \o zabbix_sender_bin \o ": " \o ToString(rc)
                            ELSE "sent")
    /\ sender_pc' = "ran"
    /\ UNCHANGED <<pc, fs, host_hostname, exit_status, stderr, tmpfiles,
                   discovery_items, repositories, patchlist, packagelist,
                   update_info>>

\* SenderClose with the file removed only after an accepted send.
SenderClose_Leak ==
    /\ sender_pc = "ran"
    /\ tmpfiles' = IF calls[Len(calls)].rc = 0
                   THEN SubSeq(tmpfiles, 1, Len(tmpfiles) - 1)
                   ELSE tmpfiles
    /\ sender_pc' = "idle"
    /\ pc' = IF pc = "send_discovery" THEN "list_patches" ELSE "done"
    /\ UNCHANGED <<fs, host_hostname, exit_status, stdout, stderr, calls,
                   discovery_items, repositories, patchlist, packagelist,
                   update_info>>

\* Leaving the with block of line 53 removes the file; zabbix_sender()
\* returns to main().
SenderClose ==
    /\ sender_pc = "ran"
    /\ tmpfiles' = SubSeq(tmpfiles, 1, Len(tmpfiles) - 1)
    /\ sender_pc' = "idle"
    /\ pc' = IF pc = "send_discovery" THEN "list_patches" ELSE "done"
    /\ UNCHANGED <<fs, host_hostname, exit_status, stdout, stderr, calls,
                   discovery_items, repositories, patchlist, packagelist,
                   update_info>>

\* Line 117-118.
ZypperListPatches ==
    /\ pc = "list_patches"
    /\ \E rc \in {0} \cup ZypperFailStatuses :
        /\ ZypperCmd("list-patches", "Retrieving available patches...", rc, "list_updates")
        /\ IF rc # 0 THEN UNCHANGED patchlist
           ELSE \E pl \in RunPatchLists : patchlist' = pl
    /\ UNCHANGED <<sender_pc, fs, host_hostname, stderr, tmpfiles,
                   discovery_items, repositories, packagelist, update_info>>

\* Line 120-121.
ZypperListUpdates ==
    /\ pc = "list_updates"
    /\ \E rc \in {0} \cup ZypperFailStatuses :
        /\ ZypperCmd("list-updates", "Retrieving available package updates...", rc,
                     "patch_items")
        /\ IF rc # 0 THEN UNCHANGED packagelist
           ELSE \E pkl \in PackageLists(repositories) : packagelist' = pkl
    /\ UNCHANGED <<sender_pc, fs, host_hostname, stderr, tmpfiles,
                   discovery_items, repositories, patchlist, update_info>>

\* Line 123-138.
GeneratePatchItems ==
    /\ pc = "patch_items"
    /\ update_info' = [update_info EXCEPT !.patches = GeneratedPatches(patchlist)]
    /\ pc' = "package_items"
    /\ UNCHANGED <<sender_pc, fs, host_hostname, exit_status, stdout, stderr,
                   calls, tmpfiles, discovery_items, repositories, patchlist,
                   packagelist>>

\* Line 140-154.
GeneratePackageItems ==
    /\ pc = "package_items"
    /\ update_info' =
           [update_info EXCEPT !.packages = GeneratedPackages(packagelist, repositories)]
    /\ pc' = "send_results"
    /\ UNCHANGED <<sender_pc, fs, host_hostname, exit_status, stdout, stderr,
                   calls, tmpfiles, discovery_items, repositories, patchlist,
                   packagelist>>

\* main() returns and the interpreter exits with status 0.
Return ==
    /\ pc = "done"
    /\ exit_status' = <<0>>
    /\ pc' = "exited"
    /\ UNCHANGED <<sender_pc, fs, host_hostname, stdout, stderr, calls, tmpfiles,
                   discovery_items, repositories, patchlist, packagelist,
                   update_info>>

Next ==
    \/ CheckSenderBin
    \/ CheckAgentConfig
    \/ ZypperRepos
    \/ SenderOpen
    \/ SenderRun
    \/ SenderClose
    \/ ZypperListPatches
    \/ ZypperListUpdates
    \/ GeneratePatchItems
    \/ GeneratePackageItems
    \/ Return

Spec == Init /\ [][Next]_vars

(* --------- the patch computation alone, over wider patch lists --------- *)

\* A run that found the sender and its configuration, no repository and no
\* package update, at line 123 with the patch list zypper returned.
InitPatches ==
    /\ pc = "patch_items"
    /\ sender_pc = "idle"
    /\ fs = [bin |-> [exists |-> TRUE, perm |-> TRUE],
             conf |-> [exists |-> TRUE, perm |-> TRUE]]
    /\ host_hostname \in Hostnames
    /\ exit_status = <<>>
    /\ stdout = <<"Retrieving available repositories...",
                  "Sending discovery information to Zabbix...", "sent",
                  "Retrieving available patches...",
                  "Retrieving available package updates...">>
    /\ stderr = <<>>
    /\ discovery_items =
           <<[k |-> "patch_category.discovery", v |-> patch_category_discovery],
             [k |-> "repositories.discovery", v |-> repo_discovery(<<>>)]>>
    /\ calls = <<[bin |-> "zypper", params |-> "repos", rc |-> 0],
                 [bin |-> zabbix_sender_bin, config |-> zabbix_agent_config,
                  input |-> SenderLines(host_hostname, discovery_items), rc |-> 0],
                 [bin |-> "zypper", params |-> "list-patches", rc |-> 0],
                 [bin |-> "zypper", params |-> "list-updates", rc |-> 0]>>
    /\ tmpfiles = <<>>
    /\ repositories = <<>>
    /\ patchlist \in TaxonomyPatchLists \cup IssuePatchLists
    /\ packagelist = <<>>
    /\ update_info = [patches |-> <<>>, packages |-> <<>>]

NextPatches == GeneratePatchItems

SpecPatches == InitPatches /\ [][NextPatches]_vars

(* ------------------------------ properties ----------------------------- *)

IsZypper(c) == c.bin = "zypper"
IsSink(c) == c.bin = zabbix_sender_bin
ZypperCalls == SelectSeq(calls, IsZypper)
SinkCalls == SelectSeq(calls, IsSink)
Exited == pc = "exited"

\* The item keys of one sink invocation, in line order.
InputKeys(c) == [i \in 1..Len(c.input) |-> c.input[i].key]
DiscoveryKeys ==
    <<"zypper.updateinfo.patch_category.discovery",
      "zypper.updateinfo.repositories.discovery">>
ResultsKeys == <<"zypper.updateinfo.raw">>

\* What the preconditions of the specification ask of the file system.
SinkBinaryUsable == fs.bin.exists /\ fs.bin.perm
SinkConfigUsable == fs.conf.exists /\ fs.conf.perm

\* C1: whenever the sink binary is not both present and executable, or the
\* sink configuration not both present and readable, no source query and no
\* sink invocation is ever made, and the run can only end with a diagnostic
\* and a non-zero status.
C1_PreconditionViolationStopsTheRun ==
    ~(SinkBinaryUsable /\ SinkConfigUsable) =>
        /\ Len(ZypperCalls) = 0
        /\ Len(SinkCalls) = 0
        /\ Exited => exit_status # <<0>> /\ stderr # <<>>

\* C2: a source query that returned a non-zero status s is the last external
\* call of the run: the process has exited with status s right after printing
\* the diagnostic, no send is in progress; and the results payload (key raw)
\* is only ever handed to the sink after all three queries returned 0.
C2_FailedQueryIsFatal ==
    /\ \A i \in 1..Len(calls) :
          (IsZypper(calls[i]) /\ calls[i].rc # 0) =>
              /\ i = Len(calls)
              /\ Exited
              /\ exit_status = <<calls[i].rc>>
              /\ stdout[Len(stdout)] = "Error getting patch list: " \o ToString(calls[i].rc)
              /\ sender_pc = "idle"
              /\ (calls[i].params = "repos" => Len(SinkCalls) = 0)
    /\ \A i \in 1..Len(calls) :
          (IsSink(calls[i]) /\ InputKeys(calls[i]) = ResultsKeys) =>
              \A q \in {"repos", "list-patches", "list-updates"} :
                  \E j \in 1..(i - 1) :
                      IsZypper(calls[j]) /\ calls[j].params = q /\ calls[j].rc = 0

\* C2, witness: list-updates failed with 106 after the discovery was sent.
C2_Witness ==
    /\ Exited
    /\ exit_status = <<106>>
    /\ Len(calls) = 4
    /\ calls[4].params = "list-updates"
    /\ Len(SinkCalls) = 1

\* The exit status the source queries alone decide.
StatusOfQueries ==
    IF \E i \in 1..Len(calls) : IsZypper(calls[i]) /\ calls[i].rc # 0
    THEN calls[CHOOSE i \in 1..Len(calls) : IsZypper(calls[i]) /\ calls[i].rc # 0].rc
    ELSE 0

\* C3: a rejected send never ends the run.  After a rejected discovery send
\* the run can only end with list-patches issued, and with all three queries
\* answered it ends with the results computed and a second send made; a
\* rejected results send ends in the normal exit; the exit status is the one
\* the source queries decide, whatever the sink returned.
C3_SinkRejectionIsNotFatal ==
    /\ \A i \in 1..Len(calls) :
          (IsSink(calls[i]) /\ calls[i].rc # 0 /\ Exited) =>
              IF InputKeys(calls[i]) = DiscoveryKeys
              THEN /\ Len(calls) > i
                   /\ IsZypper(calls[i + 1]) /\ calls[i + 1].params = "list-patches"
                   /\ StatusOfQueries = 0 =>
                         /\ Len(SinkCalls) = 2
                         /\ InputKeys(SinkCalls[2]) = ResultsKeys
                         /\ SinkCalls[2].input[1].value = JsonDumps(update_info)
                         /\ update_info.packages # <<>>
              ELSE i = Len(calls) /\ exit_status = <<0>>
    /\ (Exited /\ calls # <<>>) => exit_status = <<StatusOfQueries>>

\* C3, witness: both sends were rejected and the run ended normally.
C3_Witness ==
    /\ Exited
    /\ exit_status = <<0>>
    /\ Len(SinkCalls) = 2
    /\ SinkCalls[1].rc = 2
    /\ SinkCalls[2].rc = 2

\* The external calls of a complete run, in order.
CallOrder == <<"repos", "discovery", "list-patches", "list-updates", "results">>
CallName(c) ==
    IF IsZypper(c) THEN c.params
    ELSE IF InputKeys(c) = DiscoveryKeys THEN "discovery"
    ELSE IF InputKeys(c) = ResultsKeys THEN "results"
    ELSE "other"

\* C4: the external calls are always a prefix of repos, discovery send,
\* list-patches, list-updates, results send, so that a results send never
\* precedes the discovery send and the two later queries follow it; no query
\* is made while a send is in progress; and a run whose three queries
\* succeeded ends with exactly two sends, the first of exactly the two
\* discovery items, the second of exactly the item raw holding the results.
C4_DiscoveryThenResults ==
    /\ Len(calls) <= Len(CallOrder)
    /\ \A i \in 1..Len(calls) : CallName(calls[i]) = CallOrder[i]
    /\ sender_pc # "idle" => pc \in {"send_discovery", "send_results"}
    /\ pc \in {"list_patches", "list_updates"} => sender_pc = "idle" /\ Len(SinkCalls) = 1
    /\ (Exited /\ Len(ZypperCalls) = 3 /\ StatusOfQueries = 0) =>
          /\ Len(SinkCalls) = 2
          /\ Len(SinkCalls[1].input) = 2
          /\ InputKeys(SinkCalls[1]) = DiscoveryKeys
          /\ SinkCalls[1].input[1].value = patch_category_discovery
          /\ SinkCalls[1].input[2].value = DictGet(discovery_items, "repositories.discovery")
          /\ Len(SinkCalls[2].input) = 1
          /\ InputKeys(SinkCalls[2]) = ResultsKeys
          /\ SinkCalls[2].input[1].value = JsonDumps(update_info)

\* C4, witness: a complete run over two repositories, both sends accepted.
C4_Witness ==
    /\ Exited
    /\ exit_status = <<0>>
    /\ Len(repositories) = 2
    /\ Len(SinkCalls) = 2
    /\ SinkCalls[1].rc = 0
    /\ SinkCalls[2].rc = 0

\* The sends begun so far: main() prints a banner before each.
SendsBegun ==
    Len(SelectSeq(stdout, LAMBDA m : m \in {"Sending discovery information to Zabbix...",
                                             "Sending results to Zabbix..."}))

\* C9: at most one staging file exists, and one exists exactly while a send
\* is in progress (none once the process has ended); it holds one line per
\* item of the send, each with the run's host, the prefixed key and the
\* item's value; the sink has been run once per send begun, on that file; and
\* the file is gone after the send whatever the sink returned.
C9_StagingFileScopedToSend ==
    /\ Len(tmpfiles) <= 1
    /\ (tmpfiles # <<>>) <=> (sender_pc \in {"open", "ran"})
    /\ Exited => tmpfiles = <<>> /\ sender_pc = "idle"
    /\ sender_pc \in {"open", "ran"} =>
          /\ Len(tmpfiles[1]) = Len(TrapItems)
          /\ \A i \in 1..Len(TrapItems) :
                /\ tmpfiles[1][i].hostname = host_hostname
                /\ tmpfiles[1][i].key = "zypper.updateinfo." \o TrapItems[i].k
                /\ tmpfiles[1][i].value = TrapItems[i].v
    /\ Len(SinkCalls) = SendsBegun - (IF sender_pc = "open" THEN 1 ELSE 0)
    /\ sender_pc = "ran" =>
          /\ IsSink(calls[Len(calls)])
          /\ calls[Len(calls)].input = tmpfiles[1]
          /\ calls[Len(calls)].config = zabbix_agent_config

\* C9, witness: the discovery send was rejected, the file is gone and main()
\* goes on.
C9_Witness ==
    /\ pc = "list_patches"
    /\ Len(SinkCalls) = 1
    /\ SinkCalls[1].rc # 0
    /\ Len(SinkCalls[1].input) = 2
    /\ tmpfiles = <<>>

\* C10: no external call is repeated.  Each source sub-command and each of
\* the two sends appears at most once among the calls, the sub-commands in
\* the order repos, list-patches, list-updates; a failed source query is the
\* last call and the process has ended; a failed send is followed, if by
\* anything, by a different call; a failed precondition ends the run with no
\* call at all.
C10_NoRetry ==
    /\ \A i, j \in 1..Len(calls) : i < j => CallName(calls[i]) # CallName(calls[j])
    /\ Len(ZypperCalls) <= 3
    /\ \A i \in 1..Len(ZypperCalls) :
          ZypperCalls[i].params = <<"repos", "list-patches", "list-updates">>[i]
    /\ Len(SinkCalls) <= 2
    /\ \A i \in 1..Len(calls) :
          calls[i].rc # 0 =>
              IF IsZypper(calls[i]) THEN i = Len(calls) /\ Exited
              ELSE i < Len(calls) => calls[i + 1] # calls[i] /\ IsZypper(calls[i + 1])
    /\ stderr # <<>> => calls = <<>> /\ Exited

\* C10, witness: the discovery send was rejected, the results send accepted,
\* five calls in all.
C10_Witness ==
    /\ Exited
    /\ Len(calls) = 5
    /\ calls[2].rc # 0
    /\ calls[5].rc = 0

\* The patch records of the taxonomy cell (c, s), by position.
RecordsOf(c, s) ==
    {i \in 1..Len(patchlist) : patchlist[i].category = c /\ patchlist[i].severity = s}
Taxonomy == Range(categories) \X Range(severities)

\* The sum of the integer values of a dict.
RECURSIVE SumInts(_)
SumInts(d) ==
    IF d = <<>> THEN 0
    ELSE (IF d[1].v.t = "int" THEN d[1].v.v ELSE 0) + SumInts(Tail(d))
RECURSIVE SumCells(_)
SumCells(patches) ==
    IF patches = <<>> THEN 0 ELSE SumInts(patches[1].v) + SumCells(Tail(patches))

\* C5: after the patch items are generated, update_info["patches"] has, for
\* each of the 30 (category, severity) pairs of the taxonomy, an integer
\* entry equal to the number of patch records with exactly that category and
\* severity (0 when there is none); no category and no severity outside the
\* taxonomy has an entry; and the 30 cells add up to the number of records
\* inside the taxonomy.
C5_ClassificationMatrix ==
    pc = "package_items" =>
        /\ Cardinality(Taxonomy) = 30
        /\ DictKeys(update_info.patches) = Range(categories)
        /\ \A c \in Range(categories) :
              /\ DictKeys(DictGet(update_info.patches, c)) \ {"cves"} = Range(severities)
              /\ \A s \in Range(severities) :
                    LET cell == DictGet(DictGet(update_info.patches, c), s)
                    IN  cell.t = "int" /\ cell.v = Cardinality(RecordsOf(c, s))
        /\ SumCells(update_info.patches) =
              Cardinality({i \in 1..Len(patchlist) :
                              <<patchlist[i].category, patchlist[i].severity>> \in Taxonomy})

\* C5, witness: two records of one cell and one record outside the taxonomy
\* have been classified.
C5_Witness ==
    /\ pc = "package_items"
    /\ Len(patchlist) = 2
    /\ patchlist[1] = Patch("yast", "moderate", <<>>)
    /\ patchlist[2] = Patch("yast", "none", <<>>)
    /\ DictGet(DictGet(update_info.patches, "yast"), "moderate") = IntV(1)

\* The ids of the issue references of type cve among the patches.
CveIdsOf(u) ==
    {u.issues[j].id : j \in {k \in 1..Len(u.issues) : u.issues[k].type = "cve"}}
CveIdSet == UNION {CveIdsOf(patchlist[i]) : i \in 1..Len(patchlist)}

\* C8: after the patch items are generated, patches.security.cves is the
\* ", "-join of the ids of the cve references, each once, in strictly
\* ascending code-point order, and "" when there is none; it depends only on
\* the set of cve ids, so neither a repeated reference nor a reference of
\* another type changes it.
C8_CveListDistinctSorted ==
    pc = "package_items" =>
        LET cves == DictGet(DictGet(update_info.patches, "security"), "cves")
            n == Cardinality(CveIdSet)
        IN  /\ cves.t = "str"
            /\ \E l \in [1..n -> CveIdSet] :
                  /\ \A i \in 1..(n - 1) : StrLess(l[i], l[i + 1])
                  /\ cves.v = Join(", ", l)
            /\ (CveIdSet = {}) <=> (cves.v = "")
            /\ CveIdSet = {"CVE-2024-1", "CVE-2024-2"} => cves.v = "CVE-2024-1, CVE-2024-2"
            /\ CveIdSet = {"CVE-2024-10", "CVE-2024-2", "CVE-2024-1"} =>
                  cves.v = "CVE-2024-1, CVE-2024-10, CVE-2024-2"

\* C8, witness: CVE-2024-2 then CVE-2024-1 in one patch, CVE-2024-1 again
\* and a bugzilla reference in the next.
C8_Witness ==
    /\ pc = "package_items"
    /\ Len(patchlist) = 2
    /\ patchlist[1].issues =
           <<[type |-> "cve", id |-> "CVE-2024-2"], [type |-> "cve", id |-> "CVE-2024-1"]>>
    /\ patchlist[2].issues =
           <<[type |-> "cve", id |-> "CVE-2024-1"], [type |-> "bugzilla", id |-> "1200001"]>>
    /\ DictGet(DictGet(update_info.patches, "security"), "cves") =
           StrV("CVE-2024-1, CVE-2024-2")

\* The package-kind records of the list-updates answer, by position.
PackageRecords == {i \in 1..Len(packagelist) : packagelist[i].kind = "package"}
ResultsSent ==
    \E i \in 1..Len(calls) : IsSink(calls[i]) /\ InputKeys(calls[i]) = ResultsKeys

\* C6: in the results payload, every discovered repository alias is a key of
\* packages whose value is the integer number of package updates from that
\* repository (0 when there is none), and packages has no key besides the
\* discovered aliases, all and list.
C6_PerRepositoryCounts ==
    ResultsSent =>
        /\ \A a \in Range(repositories) :
              /\ a \in DictKeys(update_info.packages)
              /\ DictGet(update_info.packages, a).t = "int"
              /\ DictGet(update_info.packages, a).v =
                     Cardinality({i \in PackageRecords : packagelist[i].source = a})
        /\ DictKeys(update_info.packages) = Range(repositories) \cup {"all", "list"}

\* C7: in the results payload, packages.all is the number of package-kind
\* update records and packages.list the ", "-join of their name.architecture,
\* "" when there is none.
C7_PackageTotalAndList ==
    ResultsSent =>
        /\ DictGet(update_info.packages, "all").t = "int"
        /\ DictGet(update_info.packages, "all").v = Cardinality(PackageRecords)
        /\ DictGet(update_info.packages, "list").t = "str"
        /\ (PackageRecords = {}) <=> (DictGet(update_info.packages, "list").v = "")
        /\ \A i \in 1..Len(packagelist) :
              (PackageRecords = {i}) =>
                  DictGet(update_info.packages, "list").v =
                      packagelist[i].name \o "." \o packagelist[i].arch

====
